---------------------------- MODULE Spec2Model ----------------------------
(***************************************************************************)
(* Model of the narrated-video pipeline of src/index.js (the last of the   *)
(* snapshots the file holds, lines 199-494): main, getTextFromStudyMaterial,*)
(* generateVoice, generateSubtitles (transcription, re-chunking,           *)
(* reconciliation), formatTime and createFinalVideo.                       *)
(*                                                                         *)
(* Strings are sequences of one-character strings.  JavaScript Numbers are *)
(* binary floating-point values: a value is held as an integer count of    *)
(* 1/Scale units and every arithmetic result is rounded to Prec            *)
(* significant bits, ties to even, as IEEE-754 does (binary64 has 53 bits; *)
(* the model keeps the rounding rule at a narrower significand).           *)
(***************************************************************************)
EXTENDS Integers, Sequences, FiniteSets

VARIABLES
    pc,                \* where main is suspended (the await it waits on)
    customText,        \* the --text option (src/index.js:259-263)
    studyText,         \* main's local studyText
    audioFile,         \* OUTPUT_AUDIO: number of writes and content
    subtitlesFile,     \* OUTPUT_SUBTITLES: number of writes and content
    transcription,     \* the transcription capability's reply
    maxWordsPerChunk,  \* window size of generateSubtitles
    chunks,            \* the chunks appended to srtContent, with the loop's locals
    response,          \* the correction capability's reply
    failure,           \* the stage that failed, "none" if none
    log,               \* calls of stages and capabilities and file accesses, in order
    scriptText,        \* getTextFromStudyMaterial's local text (the trimmed reply)
    timeInput,         \* the argument of a call of formatTime on its own
    timeCode           \* what that call returned

vars == <<pc, customText, studyText, audioFile, subtitlesFile, transcription,
          maxWordsPerChunk, chunks, response, failure, log, scriptText, timeInput, timeCode>>

\* const segments = transcription.segments
segments == transcription.segments

---------------------------------------------------------------------------
(* Bounds of the model *)

\* significand width of the modelled floating-point format
Prec == 11
\* a transcription holds at most MaxSegs segments
MaxSegs == 2
\* a segment text holds at most MaxWords words
MaxWords == 6
\* segment times are the multiples of 3/4 s up to MaxTime * 3/4 s
MaxTime == 2
\* window sizes 1..MaxWindow are tried for the chunking algorithm
MaxWindow == 4
\* a generated script given to the character filter holds at most MaxText
\* characters
MaxText == 3
\* formatTime is given every whole millisecond from one second to MaxMillis
MaxMillis == 1500

\* one second, in units of the smallest representable step
Scale == 2^16

---------------------------------------------------------------------------
(* JavaScript Number arithmetic *)

RECURSIVE GCD(_, _)
GCD(a, b) == IF b = 0 THEN a ELSE GCD(b, a % b)

\* the exponent k >= 0 of the unit in the last place of a value whose
\* integer part, in units, is q: the least k with q < 2^(k + Prec)
RECURSIVE UlpExp(_, _)
UlpExp(q, k) == IF q < 2^(k + Prec) THEN k ELSE UlpExp(q, k + 1)

\* num/den units (num >= 0, den > 0) rounded to the nearest representable
\* value, ties to even
RoundF(num, den) ==
    LET k  == UlpExp(num \div den, 0)
        d  == den * 2^k
        m0 == num \div d
        r  == num % d
        m  == IF 2 * r > d \/ (2 * r = d /\ m0 % 2 = 1) THEN m0 + 1 ELSE m0
    IN  m * 2^k

FromInt(n) == RoundF(n * Scale, 1)
FAdd(x, y) == RoundF(x + y, 1)
FSub(x, y) == IF x >= y THEN RoundF(x - y, 1) ELSE 0 - RoundF(y - x, 1)
FMul(x, y) ==
    LET g1 == GCD(x, Scale)
        g2 == GCD(y, Scale \div g1)
    IN  RoundF((x \div g1) * (y \div g2), Scale \div (g1 * g2))
FDiv(x, y) == LET g == GCD(x, y) IN RoundF((x \div g) * Scale, y \div g)
FMod(x, y) == x % y
Floor(x)   == (x \div Scale) * Scale
\* the integer an integral Number prints as
IntOf(x)   == x \div Scale

---------------------------------------------------------------------------
(* JavaScript String operations *)

Whitespace == {" ", "\n"}

RECURSIVE TrimStart(_)
TrimStart(s) ==
    IF s # <<>> /\ Head(s) \in Whitespace THEN TrimStart(Tail(s)) ELSE s

RECURSIVE TrimEnd(_)
TrimEnd(s) ==
    IF s # <<>> /\ s[Len(s)] \in Whitespace
    THEN TrimEnd(SubSeq(s, 1, Len(s) - 1))
    ELSE s

Trim(s) == TrimEnd(TrimStart(s))

\* String.prototype.split(/\s+/): the pieces between maximal whitespace runs;
\* a string without whitespace, the empty string included, is one piece
RECURSIVE SplitFrom(_, _, _)
SplitFrom(s, cur, inSep) ==
    IF s = <<>> THEN <<cur>>
    ELSE IF Head(s) \in Whitespace
         THEN IF inSep
              THEN SplitFrom(Tail(s), cur, TRUE)
              ELSE <<cur>> \o SplitFrom(Tail(s), <<>>, TRUE)
         ELSE SplitFrom(Tail(s), Append(cur, Head(s)), FALSE)

Split(s) == SplitFrom(s, <<>>, FALSE)

\* Array.prototype.join(' ')
RECURSIVE Join(_)
Join(ws) ==
    IF ws = <<>> THEN <<>>
    ELSE IF Len(ws) = 1 THEN ws[1]
         ELSE ws[1] \o <<" ">> \o Join(Tail(ws))

\* Array.prototype.slice(from, to), 0-based, to exclusive and clamped
Slice(a, from, to) ==
    SubSeq(a, from + 1, IF to > Len(a) THEN Len(a) ELSE to)

DigitChars == <<"0", "1", "2", "3", "4", "5", "6", "7", "8", "9">>

\* String(n) for an integer n >= 0
RECURSIVE StringOf(_)
StringOf(n) ==
    IF n < 10 THEN <<DigitChars[n + 1]>>
    ELSE Append(StringOf(n \div 10), DigitChars[(n % 10) + 1])

RECURSIVE PadStart(_, _)
PadStart(s, width) ==
    IF Len(s) >= width THEN s ELSE PadStart(<<"0">> \o s, width)

---------------------------------------------------------------------------
(* formatTime *)

SecondsPerHour == 3600
SecondsPerMinute == 60
MillisPerSecond == 1000

formatTime(seconds) ==
    LET hrs  == IntOf(Floor(FDiv(seconds, FromInt(SecondsPerHour))))
        mins == IntOf(Floor(FDiv(FMod(seconds, FromInt(SecondsPerHour)),
                                 FromInt(SecondsPerMinute))))
        secs == IntOf(Floor(FMod(seconds, FromInt(SecondsPerMinute))))
        ms   == IntOf(Floor(FMul(FSub(seconds, Floor(seconds)),
                                 FromInt(MillisPerSecond))))
    IN  PadStart(StringOf(hrs), 2) \o <<":">> \o
        PadStart(StringOf(mins), 2) \o <<":">> \o
        PadStart(StringOf(secs), 2) \o <<",">> \o
        PadStart(StringOf(ms), 3)

---------------------------------------------------------------------------
(* generateSubtitles: re-chunking of the transcription segments *)

\* const maxWordsPerChunk = 4
DefaultMaxWordsPerChunk == 4

\* a slip: the share of one word, whatever the chunk holds
ChunkDurationPerWord(segDuration, chunkWordCount, totalWords) ==
    FMul(segDuration, FDiv(FromInt(1), FromInt(totalWords)))

\* proportional allocation of the segment's duration
ChunkDuration(segDuration, chunkWordCount, totalWords) ==
    FMul(segDuration, FDiv(FromInt(chunkWordCount), FromInt(totalWords)))

\* subtitleIndex++
NextIndex(subtitleIndex) == subtitleIndex + 1

\* the for loop over one segment's words, from word i (0-based) on
RECURSIVE ChunkLoop(_, _, _, _, _, _, _)
ChunkLoop(words, segNo, segDuration, i, currentTime, subtitleIndex, W) ==
    IF i >= Len(words) THEN <<>>
    ELSE LET chunkWords     == Slice(words, i, i + W)
             chunkWordCount == Len(chunkWords)
             chunkDuration  == ChunkDuration(segDuration, chunkWordCount, Len(words))
             chunkStart     == currentTime
             chunkEnd       == FAdd(currentTime, chunkDuration)
         IN  <<[seg        |-> segNo,
                index      |-> subtitleIndex,
                chunkStart |-> chunkStart,
                chunkEnd   |-> chunkEnd,
                words      |-> chunkWords,
                start      |-> formatTime(chunkStart),
                end        |-> formatTime(chunkEnd),
                text       |-> Join(chunkWords)]>>
             \o ChunkLoop(words, segNo, segDuration, i + W, chunkEnd,
                          NextIndex(subtitleIndex), W)

\* const words = segment.text.trim().split(/\s+/)
SegmentWords(segment) == Split(Trim(segment.text))

\* a slip: the cursor starts at 0 instead of segment.start
SegmentChunksFromZero(segment, segNo, subtitleIndex, W) ==
    LET words == SegmentWords(segment)
    IN  IF Len(words) = 0 THEN <<>>
        ELSE ChunkLoop(words, segNo, FSub(segment.end, segment.start), 0,
                       0, subtitleIndex, W)

\* the body of segments.forEach for one segment
SegmentChunks(segment, segNo, subtitleIndex, W) ==
    LET words      == SegmentWords(segment)
        totalWords == Len(words)
    IN  IF totalWords = 0 THEN <<>>
        ELSE ChunkLoop(words, segNo, FSub(segment.end, segment.start), 0,
                       segment.start, subtitleIndex, W)

\* a slip: the counter declared inside the forEach callback
IndexAfterReset(cs, subtitleIndex) == 1

\* subtitleIndex after the chunks cs were emitted starting at subtitleIndex
RECURSIVE IndexAfter(_, _)
IndexAfter(cs, subtitleIndex) ==
    IF cs = <<>> THEN subtitleIndex
    ELSE IndexAfter(Tail(cs), NextIndex(subtitleIndex))

\* segments.forEach(...), from segment segNo on
RECURSIVE ForEachSegment(_, _, _, _)
ForEachSegment(segs, segNo, subtitleIndex, W) ==
    IF segNo > Len(segs) THEN <<>>
    ELSE LET cs == SegmentChunks(segs[segNo], segNo, subtitleIndex, W)
         IN  cs \o ForEachSegment(segs, segNo + 1, IndexAfter(cs, subtitleIndex), W)

\* let subtitleIndex = 1; segments.forEach(...)
BuildChunks(segs, W) == ForEachSegment(segs, 1, 1, W)

---------------------------------------------------------------------------
(* Inputs *)

Letters == <<"a", "b", "c">>

\* the i-th word of a test text: one or two letters, varying with i
WordAt(i) ==
    IF i % 2 = 1 THEN <<Letters[(i % 3) + 1]>>
    ELSE <<Letters[(i % 3) + 1], "b">>

\* n words separated by sep, between lead and trail
RECURSIVE WordsFrom(_, _, _)
WordsFrom(i, n, sep) ==
    IF i > n THEN <<>>
    ELSE IF i = n THEN WordAt(i)
         ELSE WordAt(i) \o sep \o WordsFrom(i + 1, n, sep)

\* segment texts: plain ("a cb a"), and padded the way a transcription pads
\* them (a leading blank, runs of whitespace, a trailing newline)
SegTexts ==
    { WordsFrom(1, n, <<" ">>) : n \in 0..MaxWords } \cup
    { <<" ">> \o WordsFrom(1, n, <<" ", "\n">>) \o <<"\n">> : n \in {0, 1, MaxWords} }

TimeVals == { FDiv(FromInt(3 * t), FromInt(4)) : t \in 0..MaxTime }

Segment(s, e, t) == [start |-> s, end |-> e, text |-> t]

\* lists of segments in time order, each with end > start, none overlapping
RECURSIVE SegListsFrom(_, _)
SegListsFrom(from, n) ==
    IF n = 0 THEN {<<>>}
    ELSE {<<>>} \cup
         UNION { UNION { { <<Segment(s, e, t)>> \o rest :
                             t \in SegTexts, rest \in SegListsFrom(e, n - 1) } :
                         e \in {x \in TimeVals : x > s} } :
                 s \in {x \in TimeVals : x >= from} }

SegLists == SegListsFrom(0, MaxSegs)

---------------------------------------------------------------------------
(* The chunking algorithm on its own: every segment list, every window *)

NoFile == [writes |-> 0, content |-> <<>>]
NoReply == [status |-> "none", content |-> <<>>]
\* a reply of the transcription capability with its segments, one without
\* a segment list, and the value before any reply
Transcription(segs) == [received |-> TRUE, missing |-> FALSE, segments |-> segs]
TranscriptionWithoutSegments == [received |-> TRUE, missing |-> TRUE, segments |-> <<>>]
NoTranscription == [received |-> FALSE, missing |-> TRUE, segments |-> <<>>]

ChunkInit ==
    /\ pc = "transcribed"
    /\ transcription \in { Transcription(sl) : sl \in SegLists }
    /\ maxWordsPerChunk \in 1..MaxWindow
    /\ chunks = <<>>
    /\ customText = <<>> /\ studyText = <<>>
    /\ audioFile = NoFile /\ subtitlesFile = NoFile
    /\ response = NoReply
    /\ failure = "none" /\ log = <<>>
    /\ scriptText = <<>> /\ timeInput = 0 /\ timeCode = <<>>

\* the synchronous part of generateSubtitles between the two awaits
Rechunk ==
    /\ pc = "transcribed"
    /\ chunks' = BuildChunks(segments, maxWordsPerChunk)
    /\ pc' = "chunked"
    /\ UNCHANGED <<scriptText, timeInput, timeCode>>
    /\ UNCHANGED <<customText, studyText, audioFile, subtitlesFile, transcription,
                   maxWordsPerChunk, response, failure, log>>

ChunkNext == Rechunk

ChunkSpec == ChunkInit /\ [][ChunkNext]_vars

---------------------------------------------------------------------------
(* getTextFromStudyMaterial: the character filter *)

\* "c^" and "C^" stand for a lower-case and an upper-case accented Czech
\* letter (c with caron), "*" and "#" for markdown markup
WordChars == {"a", "b", "c", "A", "B", "C", "_",
              "0", "1", "2", "3", "4", "5", "6", "7", "8", "9"}
Punctuation == {".", ",", "!", "?", ";", ":", "(", ")"}
AccentedListed == {"c^"}

\* /[^\w\s.,!?;:()...]/ : the characters the filter removes
unwantedChars(c) ==
    c \notin (WordChars \cup Whitespace \cup Punctuation \cup AccentedListed)

\* text.replace(unwantedChars, '')
CleanText(text) == SelectSeq(text, LAMBDA c : ~unwantedChars(c))

\* characters of a generated script: letters, a digit, the underscore,
\* whitespace, punctuation, accented letters of both cases, markdown markup
ScriptChars == {"a", "B", "_", "7", " ", "\n", ".", "(", "c^", "C^", "*", "#"}

RECURSIVE ScriptsUpTo(_)
ScriptsUpTo(n) ==
    IF n = 0 THEN {<<>>}
    ELSE LET shorter == ScriptsUpTo(n - 1)
         IN  shorter \cup { Append(t, c) : t \in shorter, c \in ScriptChars }

\* the filter on its own: every generated text, trimmed as line 288 does
FilterInit ==
    /\ pc = "generated"
    /\ scriptText \in { Trim(reply) : reply \in ScriptsUpTo(MaxText) }
    /\ studyText = <<>>
    /\ customText = <<>>
    /\ audioFile = NoFile /\ subtitlesFile = NoFile
    /\ transcription = NoTranscription
    /\ maxWordsPerChunk = DefaultMaxWordsPerChunk
    /\ chunks = <<>>
    /\ response = NoReply
    /\ failure = "none" /\ log = <<>>
    /\ timeInput = 0 /\ timeCode = <<>>

\* lines 293-295: the cleaned text is what getTextFromStudyMaterial returns
CleanReply ==
    /\ pc = "generated"
    /\ studyText' = CleanText(scriptText)
    /\ pc' = "cleaned"
    /\ UNCHANGED <<scriptText, timeInput, timeCode>>
    /\ UNCHANGED <<customText, audioFile, subtitlesFile, transcription,
                   maxWordsPerChunk, chunks, response, failure, log>>

FilterNext == CleanReply

FilterSpec == FilterInit /\ [][FilterNext]_vars

---------------------------------------------------------------------------
(* generateSubtitles: the reply of the correction capability *)

\* A caption text is a sequence of tokens: a block "index / start --> end /
\* text", a whitespace character, or a code-fence marker ("```srt", "```").
Tok(kind) == [kind |-> kind, index |-> 0, start |-> <<>>, end |-> <<>>, text |-> <<>>]
Block(i, s, e, t) == [kind |-> "block", index |-> i, start |-> s, end |-> e, text |-> t]

\* srtContent: what the forEach appended
SrtContent(cs) ==
    [i \in DOMAIN cs |-> Block(cs[i].index, cs[i].start, cs[i].end, cs[i].text)]

RECURSIVE TrimTokStart(_)
TrimTokStart(c) ==
    IF c # <<>> /\ Head(c).kind = "ws" THEN TrimTokStart(Tail(c)) ELSE c

RECURSIVE TrimTokEnd(_)
TrimTokEnd(c) ==
    IF c # <<>> /\ c[Len(c)].kind = "ws"
    THEN TrimTokEnd(SubSeq(c, 1, Len(c) - 1))
    ELSE c

\* String.prototype.trim() on a caption text
TrimTokens(c) == TrimTokEnd(TrimTokStart(c))

\* a slip: a greedy pattern that also eats what follows the marker
StripFenceSrtGreedy(c) ==
    IF \E i \in DOMAIN c : c[i].kind = "fenceSrt"
    THEN SubSeq(c, 1, (CHOOSE i \in DOMAIN c :
                          /\ c[i].kind = "fenceSrt"
                          /\ \A j \in 1..(i - 1) : c[j].kind # "fenceSrt") - 1)
    ELSE c

\* .replace(/```srt\s*/gi, ''): the marker and the whitespace after it
RECURSIVE StripFenceSrt(_)
StripFenceSrt(c) ==
    IF c = <<>> THEN <<>>
    ELSE IF Head(c).kind = "fenceSrt" THEN StripFenceSrt(TrimTokStart(Tail(c)))
         ELSE <<Head(c)>> \o StripFenceSrt(Tail(c))

\* .replace(/```/gi, '')
StripFence(c) == SelectSeq(c, LAMBDA t : t.kind # "fence")

UpperChar(ch) ==
    CASE ch = "a" -> "A" [] ch = "b" -> "B" [] ch = "c" -> "C"
      [] ch = "c^" -> "C^" [] OTHER -> ch

\* String.prototype.toUpperCase(): only letters change
ToUpperCase(c) ==
    [i \in DOMAIN c |->
        [c[i] EXCEPT !.text = [j \in DOMAIN c[i].text |-> UpperChar(c[i].text[j])]]]

\* lines 403-412: trim, strip the fences, trim, upper-case
PostProcess(content) ==
    ToUpperCase(TrimTokens(StripFence(StripFenceSrt(TrimTokens(content)))))

---------------------------------------------------------------------------
(* main *)

Ev(name, arg) == [ev |-> name, arg |-> arg]

\* customText && customText.trim().length > 0
HasCustomText(t) == t # <<>> /\ Len(Trim(t)) > 0

\* a slip: the custom text cleaned up like a generated one
UseCustomTextTrimmed(t) == Trim(t)

\* studyText = customText
UseCustomText(t) == t

\* generateVoice(text), up to its first await (the speech-synthesis request)
CallGenerateVoice(l, text) ==
    l \o <<Ev("generateVoice", text), Ev("synthesize", text)>>

\* generateSubtitles(text), up to its first await (the transcription request,
\* which opens the narration file for reading)
CallGenerateSubtitles(l, text) ==
    l \o <<Ev("generateSubtitles", text), Ev("readAudio", <<>>), Ev("transcribe", <<>>)>>

\* a slip: only the missing list is rejected
NoSegmentsMissingOnly(tr) == tr.missing

\* !segments || segments.length === 0
NoSegments(tr) == tr.missing \/ Len(tr.segments) = 0

\* a slip (the first snapshot's main): return before createFinalVideo
ReturnBeforeCreateFinalVideo(l) == [pc |-> "done", log |-> l]

\* createFinalVideo(selectedVideoPath), up to the probe request
CallCreateFinalVideo(l) ==
    [pc |-> "awaitProbe", log |-> l \o <<Ev("createFinalVideo", <<>>), Ev("probe", <<>>)>>]

\* a slip: the catch block of generateVoice without its return
VoiceFailedFallsThrough ==
    /\ failure' = "voice"
    /\ pc' = "awaitTranscription"
    /\ log' = CallGenerateSubtitles(log, studyText)

\* catch (error) { ...; return; } around generateVoice
VoiceFailed ==
    /\ failure' = "voice"
    /\ pc' = "done"
    /\ log' = log

\* catch (error) { ...; return; } around generateSubtitles
SubtitlesFailed ==
    /\ failure' = "subtitles"
    /\ pc' = "done"
    /\ log' = log

---------------------------------------------------------------------------
(* Inputs of the pipeline *)

CustomTexts ==
    { <<>>, <<" ">>, <<"a", " ", "*", "b">>, <<" ", "C^", "a", "\n">> }

\* replies of the text-generation capability
ScriptReplies ==
    { <<"a", " ", "b", ".">>,
      <<"*", "*", "a", "*", "*", "\n">>,
      <<"#", " ", "C^", "c^", "a">>,
      <<"*">>,
      <<" ">> }

PipeTexts ==
    { <<>>,
      <<" ">> \o WordsFrom(1, 1, <<" ", "\n">>) \o <<"\n">>,
      WordsFrom(1, 2, <<" ">>),
      <<" ">> \o WordsFrom(1, MaxWords, <<" ", "\n">>) \o <<"\n">> }

\* replies of the transcription capability: contiguous segments from 0
TranscriptReplies ==
    { sl \in SegLists :
        /\ \A i \in DOMAIN sl : sl[i].text \in PipeTexts
        /\ sl # <<>> => sl[1].start = 0
        /\ \A i \in 2..Len(sl) : sl[i].start = sl[i - 1].end }

CorrectedText == <<"c^", "a", " ", "b">>

\* the draft with every text replaced: indices and time codes kept
Retexted(d) == [i \in DOMAIN d |-> [d[i] EXCEPT !.text = CorrectedText]]

\* the draft with its first block dropped and the rest renumbered
Renumbered(d) ==
    [i \in 1..(Len(d) - 1) |-> [d[i + 1] EXCEPT !.index = i, !.text = CorrectedText]]

\* replies of the correction capability to the draft d
CorrectionReplies(d) ==
    { <<>>,
      <<Tok("ws")>>,
      <<Tok("fenceSrt"), Tok("ws"), Tok("fence")>>,
      d,
      <<Tok("ws")>> \o Retexted(d) \o <<Tok("ws")>>,
      <<Tok("fenceSrt"), Tok("ws")>> \o Retexted(d) \o <<Tok("ws"), Tok("fence")>>,
      <<Tok("fenceSrt"), Tok("ws")>> \o Renumbered(d) \o <<Tok("fence")>> }

\* what a previous run left in OUTPUT_SUBTITLES
StaleSubtitles ==
    [writes |-> 0,
     content |-> <<Block(1, formatTime(0), formatTime(FromInt(1)), <<"A">>)>>]

---------------------------------------------------------------------------
(* The pipeline *)

Init ==
    /\ pc = "main"
    /\ customText \in CustomTexts
    /\ studyText = <<>>
    /\ audioFile = NoFile
    /\ subtitlesFile = StaleSubtitles
    /\ transcription = NoTranscription
    /\ maxWordsPerChunk = DefaultMaxWordsPerChunk
    /\ chunks = <<>>
    /\ response = NoReply
    /\ failure = "none"
    /\ log = <<>>
    /\ scriptText = <<>>
    /\ timeInput = 0
    /\ timeCode = <<>>

\* main up to its first await
MainStart ==
    /\ pc = "main"
    /\ IF HasCustomText(customText)
       THEN /\ studyText' = UseCustomText(customText)
            /\ pc' = "awaitSpeech"
            /\ log' = CallGenerateVoice(log, studyText')
       ELSE /\ studyText' = studyText
            /\ pc' = "awaitScript"
            /\ log' = log \o <<Ev("getTextFromStudyMaterial", <<>>), Ev("generateText", <<>>)>>
    /\ UNCHANGED <<scriptText, timeInput, timeCode>>
    /\ UNCHANGED <<customText, audioFile, subtitlesFile, transcription,
                   maxWordsPerChunk, chunks, response, failure>>

\* the text-generation request settles: getTextFromStudyMaterial returns
\* the cleaned text, or '' on an error; main goes on or returns
ScriptReturns ==
    /\ pc = "awaitScript"
    /\ \E ok \in BOOLEAN, reply \in ScriptReplies :
          /\ scriptText' = IF ok THEN Trim(reply) ELSE scriptText
          /\ studyText' = IF ok THEN CleanText(scriptText') ELSE <<>>
          /\ IF studyText' = <<>>
             THEN /\ failure' = "script"
                  /\ pc' = "done"
                  /\ log' = log
             ELSE /\ failure' = failure
                  /\ pc' = "awaitSpeech"
                  /\ log' = CallGenerateVoice(log, studyText')
    /\ UNCHANGED <<timeInput, timeCode>>
    /\ UNCHANGED <<customText, audioFile, subtitlesFile, transcription,
                   maxWordsPerChunk, chunks, response>>

\* the speech-synthesis request settles
SpeechReturns ==
    /\ pc = "awaitSpeech"
    /\ \/ /\ pc' = "awaitAudioWrite"
          /\ UNCHANGED <<failure, log>>
       \/ VoiceFailed
    /\ UNCHANGED <<scriptText, timeInput, timeCode>>
    /\ UNCHANGED <<customText, studyText, audioFile, subtitlesFile, transcription,
                   maxWordsPerChunk, chunks, response>>

\* fs.promises.writeFile(OUTPUT_AUDIO) settles; on success generateVoice
\* returns and main calls generateSubtitles
AudioWriteReturns ==
    /\ pc = "awaitAudioWrite"
    /\ \/ /\ audioFile' = [writes |-> audioFile.writes + 1, content |-> studyText]
          /\ pc' = "awaitTranscription"
          /\ log' = CallGenerateSubtitles(Append(log, Ev("writeAudio", studyText)), studyText)
          /\ UNCHANGED failure
       \/ /\ VoiceFailed
          /\ UNCHANGED audioFile
    /\ UNCHANGED <<scriptText, timeInput, timeCode>>
    /\ UNCHANGED <<customText, studyText, subtitlesFile, transcription,
                   maxWordsPerChunk, chunks, response>>

\* the transcription request fails
TranscriptionFails ==
    /\ pc = "awaitTranscription"
    /\ SubtitlesFailed
    /\ UNCHANGED <<scriptText, timeInput, timeCode>>
    /\ UNCHANGED <<customText, studyText, audioFile, subtitlesFile, transcription,
                   maxWordsPerChunk, chunks, response>>

\* the transcription request returns: the segments are checked and
\* re-chunked, and the correction request is sent
TranscriptionReturns ==
    /\ pc = "awaitTranscription"
    /\ \E tr \in {TranscriptionWithoutSegments}
                 \cup { Transcription(sl) : sl \in TranscriptReplies } :
          /\ transcription' = tr
          /\ IF NoSegments(tr)
             THEN /\ SubtitlesFailed
                  /\ chunks' = chunks
             ELSE /\ chunks' = BuildChunks(tr.segments, maxWordsPerChunk)
                  /\ pc' = "awaitCorrection"
                  /\ log' = Append(log, Ev("correct", studyText))
                  /\ failure' = failure
    /\ UNCHANGED <<scriptText, timeInput, timeCode>>
    /\ UNCHANGED <<customText, studyText, audioFile, subtitlesFile,
                   maxWordsPerChunk, response>>

\* the correction request fails, or its reply holds no content (null)
CorrectionFails ==
    /\ pc = "awaitCorrection"
    /\ \E st \in {"error", "null"} : response' = [status |-> st, content |-> <<>>]
    /\ SubtitlesFailed
    /\ UNCHANGED <<scriptText, timeInput, timeCode>>
    /\ UNCHANGED <<customText, studyText, audioFile, subtitlesFile, transcription,
                   maxWordsPerChunk, chunks>>

\* the correction request returns a text: it is post-processed and written,
\* generateSubtitles returns and main calls createFinalVideo
CorrectionReturns ==
    /\ pc = "awaitCorrection"
    /\ \E content \in CorrectionReplies(SrtContent(chunks)) :
          /\ response' = [status |-> "ok", content |-> content]
          /\ subtitlesFile' = [writes |-> subtitlesFile.writes + 1,
                               content |-> PostProcess(content)]
    /\ LET next == CallCreateFinalVideo(Append(log, Ev("writeSubtitles", <<>>)))
       IN  /\ pc' = next.pc
           /\ log' = next.log
    /\ UNCHANGED <<scriptText, timeInput, timeCode>>
    /\ UNCHANGED <<customText, studyText, audioFile, transcription,
                   maxWordsPerChunk, chunks, failure>>

\* ffprobe calls back: on an error or without a video stream the callback
\* returns, otherwise the rendering engine is run
ProbeReturns ==
    /\ pc = "awaitProbe"
    /\ \E outcome \in {"error", "noVideoStream", "ok"} :
          IF outcome = "ok"
          THEN /\ pc' = "awaitRender"
               /\ log' = Append(log, Ev("render", <<>>))
               /\ failure' = failure
          ELSE /\ pc' = "done"
               /\ log' = log
               /\ failure' = "probe"
    /\ UNCHANGED <<scriptText, timeInput, timeCode>>
    /\ UNCHANGED <<customText, studyText, audioFile, subtitlesFile, transcription,
                   maxWordsPerChunk, chunks, response>>

\* the rendering engine reports 'end' or 'error'
RenderReturns ==
    /\ pc = "awaitRender"
    /\ pc' = "done"
    /\ \/ failure' = failure
       \/ failure' = "render"
    /\ UNCHANGED <<scriptText, timeInput, timeCode>>
    /\ UNCHANGED <<customText, studyText, audioFile, subtitlesFile, transcription,
                   maxWordsPerChunk, chunks, response, log>>

Next ==
    \/ MainStart
    \/ ScriptReturns
    \/ SpeechReturns
    \/ AudioWriteReturns
    \/ TranscriptionFails
    \/ TranscriptionReturns
    \/ CorrectionFails
    \/ CorrectionReturns
    \/ ProbeReturns
    \/ RenderReturns

Spec == Init /\ [][Next]_vars

\* every request the pipeline waits on is eventually answered
FairSpec == Spec /\ WF_vars(Next)

---------------------------------------------------------------------------
(* formatTime on its own: times given in whole milliseconds *)

\* whole seconds around the minute and hour boundaries, each one a value
\* the modelled Number format holds exactly
WholeSeconds == {0, 1, 59, 60, 61, 119, 3600, 3660, 7260}

\* the times formatTime is called with, in milliseconds: from one second on,
\* where the modelled format resolves a time more finely than a millisecond
\* and an inexact t / 1000 is off by less than one
TimeInputs ==
    MillisPerSecond..MaxMillis \cup { MillisPerSecond * n : n \in WholeSeconds }

\* the Number t / 1000: the argument of formatTime for a time of t ms
SecondsOf(t) ==
    IF t % MillisPerSecond = 0 THEN FromInt(t \div MillisPerSecond)
    ELSE FDiv(FromInt(t), FromInt(MillisPerSecond))

FormatInit ==
    /\ pc = "formatTime"
    /\ timeInput \in TimeInputs
    /\ timeCode = <<>>
    /\ scriptText = <<>> /\ studyText = <<>> /\ customText = <<>>
    /\ audioFile = NoFile /\ subtitlesFile = NoFile
    /\ transcription = NoTranscription
    /\ maxWordsPerChunk = DefaultMaxWordsPerChunk
    /\ chunks = <<>>
    /\ response = NoReply
    /\ failure = "none" /\ log = <<>>

\* one call of formatTime
FormatCall ==
    /\ pc = "formatTime"
    /\ timeCode' = formatTime(SecondsOf(timeInput))
    /\ pc' = "formatted"
    /\ UNCHANGED <<scriptText, timeInput>>
    /\ UNCHANGED <<customText, studyText, audioFile, subtitlesFile, transcription,
                   maxWordsPerChunk, chunks, response, failure, log>>

FormatNext == FormatCall

FormatSpec == FormatInit /\ [][FormatNext]_vars

---------------------------------------------------------------------------
(* Properties of the chunking algorithm (checked under ChunkSpec) *)

Abs(x) == IF x < 0 THEN 0 - x ELSE x

Ceil(n, d) == (n + d - 1) \div d

\* the spacing of the representable values around x
Ulp(x) == 2^UlpExp(x, 0)

\* the number of whitespace-delimited words of a text: its maximal runs of
\* characters that are not whitespace
RECURSIVE WordCountFrom(_, _)
WordCountFrom(s, inWord) ==
    IF s = <<>> THEN 0
    ELSE IF Head(s) \in Whitespace THEN WordCountFrom(Tail(s), FALSE)
         ELSE (IF inWord THEN 0 ELSE 1) + WordCountFrom(Tail(s), TRUE)

WordCount(text) == WordCountFrom(text, FALSE)

\* the chunks emitted for segment s, in emission order
ChunksOf(s) == SelectSeq(chunks, LAMBDA c : c.seg = s)

Chunked == pc = "chunked"

\* the chunks of segment s start at its start and each starts where the
\* previous one ended
Chained(s) ==
    LET cs == ChunksOf(s)
    IN  /\ cs # <<>>
        /\ cs[1].chunkStart = segments[s].start
        /\ \A i \in 2..Len(cs) : cs[i].chunkStart = cs[i - 1].chunkEnd
        /\ \A i \in 1..Len(cs) : cs[i].chunkStart <= cs[i].chunkEnd

\* C1 as stated: for every segment with at least one word, the chunks
\* partition the segment's interval exactly: first start = segment.start,
\* each start = previous end, last end = segment.end.
C1_ExactPartition ==
    Chunked =>
        \A s \in 1..Len(segments) :
            WordCount(segments[s].text) >= 1 =>
                /\ Chained(s)
                /\ ChunksOf(s)[Len(ChunksOf(s))].chunkEnd = segments[s].end

\* C1 amended: for every segment with at least one word, the first chunk
\* starts at segment.start, each later chunk starts exactly where the
\* previous one ended, no chunk ends before it starts, and the last chunk's
\* end equals segment.end up to floating-point rounding: it is within
\* (number of chunks + 2) units in the last place of segment.end.
C1_PartitionUpToRounding ==
    Chunked =>
        \A s \in 1..Len(segments) :
            WordCount(segments[s].text) >= 1 =>
                /\ Chained(s)
                /\ Abs(ChunksOf(s)[Len(ChunksOf(s))].chunkEnd - segments[s].end)
                       <= (Len(ChunksOf(s)) + 2) * Ulp(segments[s].end)

\* C1 witness: a segment split into three or more chunks whose last end
\* missed segment.end by rounding
C1_Witness ==
    /\ Chunked
    /\ \E s \in 1..Len(segments) :
          /\ WordCount(segments[s].text) >= 1
          /\ Len(ChunksOf(s)) >= 3
          /\ ChunksOf(s)[Len(ChunksOf(s))].chunkEnd # segments[s].end

\* C2 as stated: a segment of N whitespace-delimited words yields
\* ceil(N / maxWordsPerChunk) chunks.
C2_ChunkCount ==
    Chunked =>
        \A s \in 1..Len(segments) :
            Len(ChunksOf(s)) = Ceil(WordCount(segments[s].text), maxWordsPerChunk)

\* C3 as stated: chunkEnd - chunkStart = segmentDuration * wordsInChunk /
\* totalWordsInSegment, exactly.
C3_ExactProportion ==
    Chunked =>
        \A i \in 1..Len(chunks) :
            LET c   == chunks[i]
                seg == segments[c.seg]
            IN  (c.chunkEnd - c.chunkStart) * Len(SegmentWords(seg))
                    = (seg.end - seg.start) * Len(c.words)

\* C3 amended: chunkEnd - chunkStart equals segmentDuration * wordsInChunk /
\* totalWordsInSegment up to floating-point rounding: the two differ by at
\* most 3 units in the last place of segment.end.
C3_ProportionUpToRounding ==
    Chunked =>
        \A i \in 1..Len(chunks) :
            LET c     == chunks[i]
                seg   == segments[c.seg]
                total == Len(SegmentWords(seg))
            IN  Abs((c.chunkEnd - c.chunkStart) * total
                        - (seg.end - seg.start) * Len(c.words))
                    <= 3 * Ulp(seg.end) * total

\* C3 witness: two chunks of one segment with different word counts, the
\* longer one given more time, and a duration that had to be rounded
C3_Witness ==
    /\ Chunked
    /\ \E i, j \in 1..Len(chunks) :
          /\ chunks[i].seg = chunks[j].seg
          /\ Len(chunks[i].words) > Len(chunks[j].words)
          /\ chunks[i].chunkEnd - chunks[i].chunkStart
                > chunks[j].chunkEnd - chunks[j].chunkStart
          /\ (chunks[j].chunkEnd - chunks[j].chunkStart)
                * Len(SegmentWords(segments[chunks[j].seg]))
                # (segments[chunks[j].seg].end - segments[chunks[j].seg].start)
                    * Len(chunks[j].words)

\* C4: the indices of the draft track are 1, 2, ..., K in emission order,
\* across segment boundaries.
C4_SequentialIndices ==
    Chunked => \A i \in 1..Len(chunks) : chunks[i].index = i

\* C4 witness: a track of two segments, each with two or more chunks
C4_Witness ==
    /\ Chunked
    /\ Len(segments) >= 2
    /\ \A s \in 1..2 : Len(ChunksOf(s)) >= 2
    /\ chunks[Len(chunks)].index = Len(chunks)

\* the chunks emitted for the segments that hold at least one word
ChunksOfWordySegments ==
    SelectSeq(chunks, LAMBDA c : WordCount(segments[c.seg].text) >= 1)

\* C12 as stated: a segment whose text is empty or whitespace-only is
\* skipped: it emits no chunk and does not advance the chunk index, so the
\* chunks of the other segments are numbered 1, 2, ... without a gap.
C12_EmptySegmentSkipped ==
    Chunked =>
        /\ \A s \in 1..Len(segments) :
              WordCount(segments[s].text) = 0 => ChunksOf(s) = <<>>
        /\ \A i \in 1..Len(ChunksOfWordySegments) :
              ChunksOfWordySegments[i].index = i

\* the whitespace-delimited words of a text, in order
TextWords(t) == SelectSeq(Split(Trim(t)), LAMBDA w : w # <<>>)

\* the words of the texts of the chunks cs, in order
RECURSIVE WordsOfChunks(_)
WordsOfChunks(cs) ==
    IF cs = <<>> THEN <<>>
    ELSE TextWords(Head(cs).text) \o WordsOfChunks(Tail(cs))

\* the words of the segments from segment s on, in order
RECURSIVE WordsOfSegments(_)
WordsOfSegments(s) ==
    IF s > Len(segments) THEN <<>>
    ELSE TextWords(segments[s].text) \o WordsOfSegments(s + 1)

\* each chunk holds 1..maxWordsPerChunk words
ChunkSizesInWindow ==
    \A i \in 1..Len(chunks) :
        /\ Len(TextWords(chunks[i].text)) >= 1
        /\ Len(TextWords(chunks[i].text)) <= maxWordsPerChunk

\* the words of a chunk are joined by single spaces
SingleSpaced ==
    \A i \in 1..Len(chunks) : chunks[i].text = Join(TextWords(chunks[i].text))

\* the chunks follow the segment order and those of a segment carry exactly
\* its words: none dropped, duplicated, reordered or moved to a neighbour
WordsKeptPerSegment ==
    /\ \A i \in 1..Len(chunks) : chunks[i].seg \in 1..Len(segments)
    /\ \A i \in 2..Len(chunks) : chunks[i - 1].seg <= chunks[i].seg
    /\ \A s \in 1..Len(segments) :
          WordsOfChunks(ChunksOf(s)) = TextWords(segments[s].text)
    /\ WordsOfChunks(chunks) = WordsOfSegments(1)

\* C14 as stated: every chunk holds between 1 and maxWordsPerChunk words of
\* one segment, joined by single spaces, and the chunk texts in index order
\* reproduce the segments' word lists in segment order.
C14_WordsPreserved ==
    Chunked => ChunkSizesInWindow /\ SingleSpaced /\ WordsKeptPerSegment

---------------------------------------------------------------------------
(* Properties of the pipeline (checked under Spec and FairSpec) *)

Called(name) == \E i \in DOMAIN log : log[i].ev = name

Count(name) == Cardinality({i \in DOMAIN log : log[i].ev = name})

EventNames == [i \in DOMAIN log |-> log[i].ev]

AllEvents ==
    {"getTextFromStudyMaterial", "generateText", "generateVoice", "synthesize",
     "writeAudio", "generateSubtitles", "readAudio", "transcribe", "correct",
     "writeSubtitles", "createFinalVideo", "probe", "render"}

NoneCalled(names) == \A n \in names : ~Called(n)

\* C5: once a stage has failed no later stage is started, the renderer is
\* never invoked in that run, and no stage or capability is called twice.
C5_FailFast ==
    /\ failure = "script" =>
          /\ pc = "done"
          /\ NoneCalled(AllEvents \ {"getTextFromStudyMaterial", "generateText"})
    /\ failure = "voice" =>
          /\ pc = "done"
          /\ NoneCalled({"generateSubtitles", "readAudio", "transcribe", "correct",
                         "writeSubtitles", "createFinalVideo", "probe", "render"})
    /\ failure = "subtitles" =>
          /\ pc = "done"
          /\ NoneCalled({"createFinalVideo", "probe", "render"})
    /\ \A n \in AllEvents : Count(n) <= 1

\* C5 witness: generateSubtitles threw after the correction request, and
\* main returned
C5_Witness ==
    /\ failure = "subtitles"
    /\ Called("correct")
    /\ pc = "done"

\* C6: a transcription reply with zero segments (no list, or an empty one)
\* makes generateSubtitles throw before any write: the caption file is
\* unchanged, the correction capability is not called, main does not render.
C6_ZeroSegments ==
    (transcription.received /\ (transcription.missing \/ transcription.segments = <<>>)) =>
        /\ failure = "subtitles"
        /\ pc = "done"
        /\ subtitlesFile = StaleSubtitles
        /\ NoneCalled({"correct", "writeSubtitles", "createFinalVideo", "probe", "render"})

\* C6 witness: the reply held an empty segment list
C6_Witness ==
    /\ transcription.received
    /\ ~transcription.missing
    /\ transcription.segments = <<>>
    /\ pc = "done"

Rendered == Called("render")

ExpectedOrder ==
    (IF Called("getTextFromStudyMaterial")
     THEN <<"getTextFromStudyMaterial", "generateText">> ELSE <<>>)
    \o <<"generateVoice", "synthesize", "writeAudio", "generateSubtitles",
         "readAudio", "transcribe", "correct", "writeSubtitles",
         "createFinalVideo", "probe", "render">>

\* C7: in a run without a failure the stages are invoked once each in the
\* order script - generateVoice - generateSubtitles (transcription, then
\* correction) - createFinalVideo; the narration file is written before it
\* is read, the caption file before the renderer runs; and every run either
\* meets a failure or eventually invokes the renderer.
C7_OrderedRun ==
    /\ [](Rendered =>
            /\ EventNames = ExpectedOrder
            /\ Called("getTextFromStudyMaterial") = ~(customText # <<>> /\ Trim(customText) # <<>>)
            /\ audioFile.writes = 1
            /\ subtitlesFile.writes = 1)
    /\ <>(failure # "none" \/ Rendered)

\* C7 witness: a run with a generated script that rendered and ended
C7_Witness ==
    /\ Rendered
    /\ pc = "done"
    /\ failure = "none"
    /\ Called("generateText")

StageArgsAre(text) ==
    \A i \in DOMAIN log :
        log[i].ev \in {"generateVoice", "synthesize", "generateSubtitles", "correct"}
            => log[i].arg = text

\* C8 as stated: whenever a custom text exists the script synthesizer is
\* never called and the text reaches generateVoice and generateSubtitles
\* unchanged.
C8_CustomTextBypass ==
    (customText # <<>> /\ pc # "main") =>
        /\ NoneCalled({"getTextFromStudyMaterial", "generateText"})
        /\ Called("generateVoice")
        /\ StageArgsAre(customText)

\* C8 amended: whenever a custom text exists that is not whitespace-only,
\* the script synthesizer is never called and the text reaches generateVoice
\* and generateSubtitles unchanged (not filtered, not trimmed).
C8_NonBlankCustomTextBypass ==
    (customText # <<>> /\ Trim(customText) # <<>> /\ pc # "main") =>
        /\ NoneCalled({"getTextFromStudyMaterial", "generateText"})
        /\ Called("generateVoice")
        /\ StageArgsAre(customText)

\* C8 witness: a custom text with surrounding whitespace and a character the
\* filter would remove was handed to generateSubtitles as it is
C8_Witness ==
    /\ customText = <<" ", "C^", "a", "\n">>
    /\ \E i \in DOMAIN log : log[i].ev = "generateSubtitles" /\ log[i].arg = customText

\* C9 as stated: when the correction capability errors or its reply is
\* empty (also after trimming and fence stripping), generateSubtitles throws:
\* no caption file is written and main does not render.
C9_EmptyReplyFails ==
    (\/ response.status \in {"error", "null"}
     \/ (response.status = "ok" /\ PostProcess(response.content) = <<>>)) =>
        /\ failure = "subtitles"
        /\ subtitlesFile = StaleSubtitles
        /\ NoneCalled({"writeSubtitles", "createFinalVideo", "probe", "render"})

\* the indices and time codes of a caption text, in order
TimeCodes(c) ==
    LET b == SelectSeq(c, LAMBDA t : t.kind = "block")
    IN  [i \in DOMAIN b |-> <<b[i].index, b[i].start, b[i].end>>]

Written == subtitlesFile.writes > 0

\* C10 as stated: the caption file written has the indices and time codes
\* of the draft, in the same order (stated here for the replies that are
\* not empty; the empty ones are C9's).
C10_SameAsDraft ==
    (Written /\ subtitlesFile.content # <<>>) =>
        TimeCodes(subtitlesFile.content) = TimeCodes(SrtContent(chunks))

\* C10 amended: the caption file written has the indices and time codes of
\* the correction capability's reply, in the same order (trimming, fence
\* stripping and upper-casing leave them alone, and nothing validates them):
\* they are those of the draft whenever the reply kept the draft's.
C10_SameAsReply ==
    Written =>
        /\ TimeCodes(subtitlesFile.content) = TimeCodes(response.content)
        /\ TimeCodes(response.content) = TimeCodes(SrtContent(chunks))
              => TimeCodes(subtitlesFile.content) = TimeCodes(SrtContent(chunks))

\* C10 witness: a fenced reply that kept the draft's indices and time codes
\* and changed its texts was written
C10_Witness ==
    /\ Written
    /\ Len(chunks) >= 2
    /\ \E i \in DOMAIN response.content : response.content[i].kind = "fenceSrt"
    /\ TimeCodes(subtitlesFile.content) = TimeCodes(SrtContent(chunks))
    /\ \A i \in DOMAIN subtitlesFile.content :
          subtitlesFile.content[i].text # chunks[i].text

\* the probe request of createFinalVideo has been answered
Probed == Called("probe") /\ pc # "awaitProbe"

\* C13 as stated: whatever the probe answers (an error, a result without a
\* video stream, a result with one), the rendering engine is started.
C13_RenderAfterAnyProbe ==
    Probed => Called("render")

---------------------------------------------------------------------------
(* Properties of the character filter (checked under FilterSpec) *)

\* the accented letters of the language, of both cases
AccentedLetters == {"c^", "C^"}

\* the allowed set: word characters, whitespace, the punctuation
\* . , ! ? ; : ( ) and the accented letters
AllowedChars == WordChars \cup Whitespace \cup Punctuation \cup AccentedLetters

Cleaned == pc = "cleaned"

\* C11: the filter removes every character outside the allowed set and keeps
\* every character inside it, upper- and lower-case accented letters
\* included, in the original order; filtering the filtered text again yields
\* the same text.
C11_FilterKeepsAllowed ==
    Cleaned =>
        /\ studyText = SelectSeq(scriptText, LAMBDA c : c \in AllowedChars)
        /\ CleanText(studyText) = studyText

---------------------------------------------------------------------------
(* Properties of formatTime (checked under FormatSpec) *)

Formatted == pc = "formatted"

\* HH:MM:SS,mmm computed from the whole milliseconds t with integer
\* arithmetic
TimeCodeOf(t) ==
    PadStart(StringOf(t \div 3600000), 2) \o <<":">> \o
    PadStart(StringOf((t % 3600000) \div 60000), 2) \o <<":">> \o
    PadStart(StringOf((t % 60000) \div 1000), 2) \o <<",">> \o
    PadStart(StringOf(t % 1000), 3)

\* C15 as stated: for a time of t whole milliseconds formatTime returns
\* HH:MM:SS,mmm with HH = t div 3600000, MM = (t mod 3600000) div 60000,
\* SS = (t mod 60000) div 1000 and mmm = t mod 1000, two, two, two and three
\* digits wide.
C15_FieldsRecombine ==
    Formatted =>
        /\ Len(timeCode) = 12
        /\ timeCode = TimeCodeOf(timeInput)

===========================================================================
